---- MODULE Spec2Model ----
(***************************************************************************)
(* Bat steering AI (Bat.update / explore / seek / pursue) and Player       *)
(* locomotion (Player.update / jump / hitByBat / reset / ...) of the       *)
(* disk-world game, as a state machine.                                    *)
(*                                                                         *)
(* Numbers are fixed point: a length of 1 world unit is UNIT, a speed of   *)
(* 1 unit/s is UNIT, times are milliseconds, unit vectors (forward, the    *)
(* result of vec3.normalize) have length DIR.  A vector carries a flag     *)
(* nan that stands for "every component is NaN", the value JavaScript      *)
(* produces in seek() when delta is 0.                                     *)
(***************************************************************************)
EXTENDS Integers, Sequences, FiniteSets, TLC

VARIABLES
    bat,            \* the Bat: state, position, velocity, forward, target_position, ignore_timer
    player,         \* the Player: position, velocity, forward, jumping, anim
    min_direction_is_dir, \* module-level min_direction references the same array as dir
    disks,          \* world.disks, fixed after load
    last,           \* history: the last operation, its inputs and the state it started from
    trail,          \* history: the Bat's state after each of its updates
    steps           \* number of operations so far

vars == <<bat, player, min_direction_is_dir, disks, last, trail, steps>>

----------------------------------------------------------------------------
(* Scales and bounds *)

UNIT == 10 * 10
DIR == 10 * 10 * 10

MaxSteps == 4

----------------------------------------------------------------------------
(* Scalar helpers *)

Abs(a) == IF a < 0 THEN -a ELSE a

Sgn(a) == IF a < 0 THEN -1 ELSE 1

\* a / b rounded toward zero (b # 0)
DivT(a, b) == Sgn(a) * Sgn(b) * (Abs(a) \div Abs(b))

\* a / b rounded to the nearest integer (b > 0)
DivR(a, b) == Sgn(a) * ((2 * Abs(a) + b) \div (2 * b))

RECURSIVE SqrtSearch(_, _, _)
SqrtSearch(n, lo, hi) ==
    IF lo >= hi THEN lo
    ELSE LET mid == (lo + hi) \div 2
         IN  IF mid * mid >= n THEN SqrtSearch(n, lo, mid)
             ELSE SqrtSearch(n, mid + 1, hi)

\* the least r with r * r >= n, for 0 <= n < 2^31
CeilSqrt(n) == SqrtSearch(n, 0, 46340)

----------------------------------------------------------------------------
(* gl-matrix vec3 *)

Vec(x, y, z) == [x |-> x, y |-> y, z |-> z, nan |-> FALSE]

ZeroVec == Vec(0, 0, 0)

NaNVec == [x |-> 0, y |-> 0, z |-> 0, nan |-> TRUE]

Add(a, b) ==
    IF a.nan \/ b.nan THEN NaNVec
    ELSE Vec(a.x + b.x, a.y + b.y, a.z + b.z)

Sub(a, b) ==
    IF a.nan \/ b.nan THEN NaNVec
    ELSE Vec(a.x - b.x, a.y - b.y, a.z - b.z)

\* vec3.scale(out, a, num / den); a division by 0 gives infinities, which every
\* later step of the callers turns into NaN
ScaleBy(a, num, den) ==
    IF a.nan \/ den = 0 THEN NaNVec
    ELSE Vec(DivT(a.x * num, den), DivT(a.y * num, den), DivT(a.z * num, den))

\* vec3.scaleAndAdd(out, a, b, num / den)
ScaleAndAdd(a, b, num, den) == Add(a, ScaleBy(b, num, den))

Len2(a) == a.x * a.x + a.y * a.y + a.z * a.z

MaxAbs(a) ==
    IF Abs(a.x) >= Abs(a.y) /\ Abs(a.x) >= Abs(a.z) THEN Abs(a.x)
    ELSE IF Abs(a.y) >= Abs(a.z) THEN Abs(a.y) ELSE Abs(a.z)

\* vec3.length, rounded up; a long vector is measured in a coarser unit k so
\* that no square leaves 32 bits
Length(a) ==
    LET k == 1 + MaxAbs(a) \div 20000
    IN  IF k = 1 THEN CeilSqrt(Len2(a))
        ELSE k * CeilSqrt(Len2(Vec(Abs(a.x) \div k + 1, Abs(a.y) \div k + 1,
                                    Abs(a.z) \div k + 1)))

\* |a| > max for a finite a and 0 <= max <= 20000
Exceeds(a, max) == MaxAbs(a) > max \/ Len2(a) > max * max

\* vec3.normalize(out, a): a unit vector of length DIR; out is left as it
\* was when the squared length is not > 0 (a zero vector, or NaN)
Normalize(out, a) ==
    IF a.nan \/ MaxAbs(a) = 0 THEN out
    ELSE ScaleBy(a, DIR, Length(a))

\* MathHelper.vec3_truncate(out, a, max): a when |a| <= max (or |a| is NaN),
\* else a scaled to length max
vec3_truncate(a, max) ==
    IF a.nan THEN a
    ELSE IF Exceeds(a, max) THEN ScaleBy(a, max, Length(a))
    ELSE a

\* |a| <= max, false of NaN
WithinLength(a, max) == ~a.nan /\ ~Exceeds(a, max)

----------------------------------------------------------------------------
(* Collision helper and World terrain queries *)

\* |(dx, dz)| <= r, without squaring a large distance
HorizWithin(dx, dz, r) ==
    /\ Abs(dx) <= r
    /\ Abs(dz) <= r
    /\ dx * dx + dz * dz <= r * r

\* Collision.cylinderIntersection(p1, r1, h1, p2, r2, h2); every comparison
\* with NaN is false
cylinderIntersection(p1, r1, h1, p2, r2, h2) ==
    /\ ~p1.nan
    /\ ~p2.nan
    /\ HorizWithin(p1.x - p2.x, p1.z - p2.z, r1 + r2)
    /\ Abs(p1.y - p2.y) <= h1 + h2

Disk(x, y, z, r) == [position |-> Vec(x, y, z), radius |-> r]

\* the "no terrain" height
NoTerrain == -(10 * UNIT)

SetMax(S) == CHOOSE m \in S : \A n \in S : n <= m

DiskRange(w) == 1..Len(w)

\* world.getHeightAtPointPosition(x, z): the top of the highest disk that
\* covers the point, NoTerrain when none does
getHeightAtPointPosition(w, x, z) ==
    SetMax({NoTerrain} \cup
           {w[i].position.y : i \in {j \in DiskRange(w) :
               HorizWithin(x - w[j].position.x, z - w[j].position.z, w[j].radius)}})

\* world.isOnDisk(x, z, radius): the circle overlaps a disk's footprint
isOnDisk(w, x, z, radius) ==
    \E i \in DiskRange(w) :
        HorizWithin(x - w[i].position.x, z - w[i].position.z, radius + w[i].radius)

\* world.getHeightAtCirclePosition(x, z, radius): the highest terrain under the circle
getHeightAtCirclePosition(w, x, z, radius) ==
    SetMax({NoTerrain} \cup
           {w[i].position.y : i \in {j \in DiskRange(w) :
               HorizWithin(x - w[j].position.x, z - w[j].position.z, radius + w[j].radius)}})

\* world.isCylinderCollisionWithDisk(position, radius, half_height): the
\* cylinder meets the top plane of a disk
isCylinderCollisionWithDisk(w, position, radius, half_height) ==
    /\ ~position.nan
    /\ \E i \in DiskRange(w) :
          /\ HorizWithin(position.x - w[i].position.x, position.z - w[i].position.z,
                         radius + w[i].radius)
          /\ Abs(position.y - w[i].position.y) <= half_height

\* world.getRandomXZPosition(): the points the random generator can return here
RandomXZPositions == {Vec(2 * UNIT, 0, 0), Vec(30 * UNIT, 0, 0)}

\* Random.randf(0, S_MAX): the speeds the random generator can return here
RandomSpeeds == {0, 4 * UNIT}

----------------------------------------------------------------------------
(* Bat *)

S_MAX == 5 * UNIT
A_MAX == 8 * UNIT
TARGET_ALTITUDE == 15 * UNIT
BAT_RADIUS == (7 * UNIT) \div 10
BAT_HALF_HEIGHT == UNIT \div 10
PLAYER_RADIUS == UNIT \div 4
PLAYER_HALF_HEIGHT == (8 * UNIT) \div 10
PROXIMITY == 20 * UNIT
DEATH_TIMER == 1000

\* target_position = world.getRandomXZPosition(); target_position[1] = 15.0
RoamingTarget(rnd) == [rnd EXCEPT !.y = TARGET_ALTITUDE]

\* new Bat(position, model, player, world)
NewBat(position, rx, rz, rnd) ==
    LET v == Vec(rx, 0, rz)
    IN  [state |-> "EXPLORE",
         position |-> position,
         velocity |-> v,
         forward |-> Normalize(Vec(DIR, 0, 0), v),
         target_position |-> RoamingTarget(rnd),
         ignore_timer |-> 0]

\* velocity = truncate(velocity + A * delta_s, S_MAX)
ClampSpeedOff(v) == v
ClampSpeed(v) == vec3_truncate(v, S_MAX)

\* A = truncate(A_desired, A_MAX)
ClampAccel(a) == vec3_truncate(a, A_MAX)

\* Bat.seek(delta_s)
seek(b, delta_ms) ==
    LET R == Sub(b.target_position, b.position)
        D == ScaleBy(Normalize(ZeroVec, R), S_MAX, DIR)
        S == Sub(D, b.velocity)
        A_desired == ScaleBy(S, 1000, delta_ms)
        A == ClampAccel(A_desired)
        v == ClampSpeed(ScaleAndAdd(b.velocity, A, delta_ms, 1000))
    IN  [b EXCEPT !.velocity = v,
                  !.position = ScaleAndAdd(b.position, v, delta_ms, 1000),
                  !.forward = Normalize(b.forward, v)]

\* the test of Bat.explore: the Bat has reached its target
ReachedTargetNever(b) == FALSE
ReachedTarget(b) ==
    cylinderIntersection(b.position, BAT_RADIUS, BAT_HALF_HEIGHT,
                         b.target_position, 2 * UNIT, UNIT)

\* Bat.explore(delta_s)
explore(b, delta_ms, rnd) ==
    seek(IF ReachedTarget(b) THEN [b EXCEPT !.target_position = RoamingTarget(rnd)] ELSE b,
         delta_ms)

\* Bat.pursue(delta_s)
pursue(b, p, delta_ms) ==
    LET D == Sub(p.position, b.position)
        T == IF D.nan THEN NaNVec
             ELSE ScaleAndAdd(p.position, p.velocity, Length(D) * 3, 10 * UNIT)
    IN  seek([b EXCEPT !.target_position = T], delta_ms)

\* if (this.state == Bat_State.DEAD) return
IsDead(b) == b.state = "DEAD"

\* this.ignore_timer -= delta_s; if (this.ignore_timer < 0) this.ignore_timer = 0
DecrementTimerNoFloor(t, delta_ms) == t - delta_ms
DecrementTimer(t, delta_ms) == IF t - delta_ms < 0 THEN 0 ELSE t - delta_ms

\* the terrain test of Bat.update
HitsTerrain(w, b) == isCylinderCollisionWithDisk(w, b.position, BAT_RADIUS, 0)

\* this.state = DEAD; this.ignore_timer = 1.0; return
DieTimerKept(b) == [b EXCEPT !.state = "DEAD"]
Die(b) == [b EXCEPT !.state = "DEAD", !.ignore_timer = DEATH_TIMER]

\* the proximity test of Bat.update
PlayerNearSticky(b, p) ==
    \/ b.state = "PURSUE"
    \/ cylinderIntersection(b.position, BAT_RADIUS + PROXIMITY, BAT_HALF_HEIGHT + PROXIMITY,
                            p.position, PLAYER_RADIUS, PLAYER_HALF_HEIGHT)
PlayerNear(b, p) ==
    cylinderIntersection(b.position, BAT_RADIUS + PROXIMITY, BAT_HALF_HEIGHT + PROXIMITY,
                         p.position, PLAYER_RADIUS, PLAYER_HALF_HEIGHT)

\* which way Bat.update goes from b
UpdateBranch(w, b, p, delta_ms) ==
    IF IsDead(b) THEN "dead"
    ELSE IF HitsTerrain(w, b) THEN "hit"
    ELSE IF PlayerNear(b, p) THEN "pursue"
    ELSE "explore"

\* Bat.update(delta_ms) from the timer on: the Bat was not Dead
updateLivingTimerLast(w, b, p, delta_ms, rnd) ==
    LET b1 == IF HitsTerrain(w, b) THEN Die(b)
              ELSE IF PlayerNear(b, p)
                   THEN pursue([b EXCEPT !.state = "PURSUE"], p, delta_ms)
                   ELSE explore([b EXCEPT !.state = "EXPLORE"], delta_ms, rnd)
    IN  [b1 EXCEPT !.ignore_timer = DecrementTimer(b1.ignore_timer, delta_ms)]
updateLiving(w, b, p, delta_ms, rnd) ==
    LET b1 == [b EXCEPT !.ignore_timer = DecrementTimer(b.ignore_timer, delta_ms)]
    IN  IF HitsTerrain(w, b1) THEN Die(b1)
        ELSE IF PlayerNear(b1, p)
             THEN pursue([b1 EXCEPT !.state = "PURSUE"], p, delta_ms)
             ELSE explore([b1 EXCEPT !.state = "EXPLORE"], delta_ms, rnd)

\* Bat.update(delta_ms): the Bat after the call
updateDeadAfterTimer(w, b, p, delta_ms, rnd) ==
    IF IsDead(b)
    THEN [b EXCEPT !.ignore_timer = DecrementTimer(b.ignore_timer, delta_ms)]
    ELSE updateLiving(w, b, p, delta_ms, rnd)
update(w, b, p, delta_ms, rnd) ==
    IF IsDead(b) THEN b ELSE updateLiving(w, b, p, delta_ms, rnd)

----------------------------------------------------------------------------
(* Player *)

JUMP_UP_SPEED == 12 * UNIT
JUMP_FORWARD_SPEED == 8 * UNIT
TURNING_DEGREES == 3
ACCEL_FORWARD == 25 * UNIT
ACCEL == 10 * UNIT
GRAVITY == Vec(0, -((98 * UNIT) \div 10), 0)
NUM_DIRECTIONS == 60
SAMPLE_RADIUS == UNIT \div 100

\* cos and sin of 2 pi i / 60, times DIR
CosTable ==
    <<1000, 995, 978, 951, 914, 866, 809, 743, 669, 588, 500, 407, 309, 208, 105,
      0, -105, -208, -309, -407, -500, -588, -669, -743, -809, -866, -914, -951, -978, -995,
      -1000, -995, -978, -951, -914, -866, -809, -743, -669, -588, -500, -407, -309, -208, -105,
      0, 105, 208, 309, 407, 500, 588, 669, 743, 809, 866, 914, 951, 978, 995>>

SinTable ==
    <<0, 105, 208, 309, 407, 500, 588, 669, 743, 809, 866, 914, 951, 978, 995,
      1000, 995, 978, 951, 914, 866, 809, 743, 669, 588, 500, 407, 309, 208, 105,
      0, -105, -208, -309, -407, -500, -588, -669, -743, -809, -866, -914, -951, -978, -995,
      -1000, -995, -978, -951, -914, -866, -809, -743, -669, -588, -500, -407, -309, -208, -105>>

\* vec2.set(dir, 1, 0); vec2_rotate(dir, dir, Math.PI * 2 * (i / 60)), i in 0..59
SampleDir(i) == [x |-> CosTable[i + 1], y |-> SinTable[i + 1]]

\* cos and sin of an angle in milliradians, times DIR, for the angles the
\* turning operations are called with here
CosMilli(a) ==
    CASE Abs(a) = 0 -> 1000
      [] Abs(a) = 300 -> 955
      [] Abs(a) = 1500 -> 71

SinMilli(a) ==
    Sgn(a) * (CASE Abs(a) = 0 -> 0
                [] Abs(a) = 300 -> 296
                [] Abs(a) = 1500 -> 997)

\* vec3.rotateY(out, a, [0, 0, 0], c), c in milliradians
rotateY(a, c) ==
    Vec(DivR(a.z * SinMilli(c) + a.x * CosMilli(c), DIR),
        a.y,
        DivR(a.z * CosMilli(c) - a.x * SinMilli(c), DIR))

\* Entity.getRight: forward x up
getRight(forward) == Vec(-forward.z, 0, forward.x)

\* world.getFrictionAtPosition(x, z), given as friction ^ (1/10) times 1000
getFrictionAtPosition(w, x, z) == 9 * 100

\* world.getSlopeFactorAtPosition(x, z), in hundredths
getSlopeFactorAtPosition(w, x, z) == 5 * 10

RECURSIVE PowMilli(_, _)
PowMilli(r, k) == IF k <= 0 THEN 1000 ELSE DivR(r * PowMilli(r, k - 1), 1000)

\* Math.pow(friction, delta_time_s) times 1000, delta a multiple of 100 ms
FrictionPow(root, delta_ms) ==
    IF delta_ms >= 0 THEN PowMilli(root, delta_ms \div 100)
    ELSE DivR(1000 * 1000, PowMilli(root, (-delta_ms) \div 100))

\* new Player(): jumping is not assigned and reads as false
NewPlayer ==
    [position |-> ZeroVec, velocity |-> ZeroVec, forward |-> Vec(DIR, 0, 0),
     jumping |-> FALSE, anim |-> "Standing"]

\* h of iteration i of the sampling loop of Player.update
SampleHeight(w, pos, i) ==
    getHeightAtPointPosition(w, pos.x + DivR(SampleDir(i).x * SAMPLE_RADIUS, DIR),
                                pos.z + DivR(SampleDir(i).y * SAMPLE_RADIUS, DIR))

\* min_height after the sampling loop
MinHeight(w, pos, base) ==
    LET hs == {SampleHeight(w, pos, i) : i \in 0..(NUM_DIRECTIONS - 1)}
        lowest == CHOOSE h \in hs : \A g \in hs : h <= g
    IN  IF lowest < base THEN lowest ELSE base

\* the iteration that assigned min_height last: the first one with the lowest height
LowestIndex(w, pos, base) ==
    CHOOSE i \in 0..(NUM_DIRECTIONS - 1) :
        /\ SampleHeight(w, pos, i) = MinHeight(w, pos, base)
        /\ \A j \in 0..(i - 1) : SampleHeight(w, pos, j) > SampleHeight(w, pos, i)

\* min_direction after the loop.  "min_direction = dir" makes both names refer to
\* one array, so from then on min_direction holds what the last iteration wrote
MinDirection(aliased) ==
    IF aliased THEN SampleDir(NUM_DIRECTIONS - 1) ELSE [x |-> 0, y |-> 0]

\* Player.addAcceleration(a)
addAccelerationInFlight(p, a) == [p EXCEPT !.velocity = Add(p.velocity, a)]
addAcceleration(p, a) ==
    IF ~p.jumping THEN [p EXCEPT !.velocity = Add(p.velocity, a)] ELSE p

\* the sliding part of Player.update, on p at new_pos with friction applied
Slide(w, p, aliased, new_pos, player_base_y, delta_ms) ==
    LET min_slope == getSlopeFactorAtPosition(w, new_pos.x, new_pos.z)
        min_height == MinHeight(w, new_pos, player_base_y)
        now_aliased == aliased \/ min_height < player_base_y
        slope == DivT((player_base_y - min_height) * 100, SAMPLE_RADIUS)
        a == DivT((slope - min_slope) * delta_ms, 10000 \div UNIT)
        min_direction == MinDirection(now_aliased)
        accel == ScaleBy(Vec(min_direction.x, 0, min_direction.y), a, DIR)
    IN  [player |-> IF slope > min_slope THEN addAcceleration(p, accel) ELSE p,
         aliased |-> now_aliased]

\* the gravity step of Player.update
ApplyGravityNot(v, delta_ms) == v
ApplyGravity(v, delta_ms) == ScaleAndAdd(v, GRAVITY, delta_ms, 1000)

PlayerCollides(w, pos) ==
    isCylinderCollisionWithDisk(w, pos, PLAYER_RADIUS, PLAYER_HALF_HEIGHT)

\* the landing branch of Player.update (collided from above), with the
\* position committed at the end of the update; v is the velocity after gravity
LandFalling(p, v, new_pos, player_y) ==
    [p EXCEPT !.jumping = FALSE,
              !.anim = "Standing",
              !.velocity = v,
              !.position = [new_pos EXCEPT !.y = player_y]]
Land(p, v, new_pos, player_y) ==
    [p EXCEPT !.jumping = FALSE,
              !.anim = "Standing",
              !.velocity = [v EXCEPT !.y = 0],
              !.position = [new_pos EXCEPT !.y = player_y]]

\* the side branch of Player.update (collided with the side of a disk), with
\* the position committed at the end of the update
StopAtSideAndHang(p, v, old_pos, new_pos) ==
    [p EXCEPT !.velocity = Vec(0, v.y, 0), !.position = old_pos]
StopAtSide(p, v, old_pos, new_pos) ==
    [p EXCEPT !.velocity = Vec(0, v.y, 0),
              !.position = Vec(old_pos.x, new_pos.y, old_pos.z)]

\* the last branch of Player.update (a grounded Player with no disk under its
\* predicted position), with the position committed at the end of the update
StartFallingInPlace(p, new_pos) ==
    [p EXCEPT !.jumping = TRUE, !.anim = "Falling"]
StartFalling(p, new_pos) ==
    [p EXCEPT !.jumping = TRUE, !.anim = "Falling", !.position = new_pos]

\* which way Player.update goes
PlayerBranch(w, p, delta_ms) ==
    LET old_pos == p.position
        new_pos == ScaleAndAdd(p.position, p.velocity, delta_ms, 1000)
    IN  IF p.jumping
        THEN IF PlayerCollides(w, new_pos)
             THEN IF PlayerCollides(w, old_pos) THEN "land" ELSE "side"
             ELSE "fly"
        ELSE IF isOnDisk(w, new_pos.x, new_pos.z, PLAYER_RADIUS) THEN "ground" ELSE "fall"

\* Player.update(world, delta_time_ms): the Player and the aliasing after the call
playerUpdate(w, p, aliased, delta_ms) ==
    LET old_pos == p.position
        new_pos == ScaleAndAdd(p.position, p.velocity, delta_ms, 1000)
        player_base_y == getHeightAtCirclePosition(w, new_pos.x, new_pos.z, PLAYER_RADIUS)
        player_y == player_base_y + PLAYER_HALF_HEIGHT
    IN  IF p.jumping
        THEN LET v == ApplyGravity(p.velocity, delta_ms)
             IN  IF PlayerCollides(w, new_pos)
                 THEN IF PlayerCollides(w, old_pos)
                      THEN [player |-> Land(p, v, new_pos, player_y), aliased |-> aliased]
                      ELSE [player |-> StopAtSide(p, v, old_pos, new_pos), aliased |-> aliased]
                 ELSE [player |-> [p EXCEPT !.velocity = v, !.position = new_pos],
                       aliased |-> aliased]
        ELSE IF isOnDisk(w, new_pos.x, new_pos.z, PLAYER_RADIUS)
             THEN LET at == [new_pos EXCEPT !.y = player_y]
                      friction == getFrictionAtPosition(w, new_pos.x, new_pos.z)
                      v == ScaleBy([p.velocity EXCEPT !.y = 0],
                                   FrictionPow(friction, delta_ms), 1000)
                      slid == Slide(w, [p EXCEPT !.velocity = v], aliased, at,
                                    player_base_y, delta_ms)
                  IN  [player |-> [slid.player EXCEPT !.position = at],
                       aliased |-> slid.aliased]
             ELSE [player |-> StartFalling(p, new_pos), aliased |-> aliased]

\* the velocity hitByBat gives a grounded Player: the horizontal part of
\* bat_velocity, normalized, scaled to 5, with vertical component 5
KnockbackUnscaled(bat_velocity) ==
    IF bat_velocity.nan THEN NaNVec ELSE [bat_velocity EXCEPT !.y = 5 * UNIT]
Knockback(bat_velocity) ==
    LET h == IF bat_velocity.nan THEN NaNVec ELSE [bat_velocity EXCEPT !.y = 0]
        u == ScaleBy(Normalize(h, h), 5 * UNIT, DIR)
        v == IF u.nan \/ Len2(h) = 0 THEN h ELSE u
    IN  IF v.nan THEN v ELSE [v EXCEPT !.y = 5 * UNIT]

\* Player.hitByBat(bat_velocity): the Player, and bat_velocity, after the call
hitByBat(p, bat_velocity) ==
    IF p.jumping
    THEN LET n == IF bat_velocity.nan \/ Len2(bat_velocity) = 0 THEN bat_velocity
                  ELSE ScaleBy(Normalize(ZeroVec, bat_velocity), UNIT, DIR)
         IN  [player |-> [p EXCEPT !.velocity = ScaleAndAdd(p.velocity, n, 7, 1)],
              bat_velocity |-> n]
    ELSE [player |-> [p EXCEPT !.velocity = Knockback(bat_velocity),
                               !.anim = "Jumping",
                               !.jumping = TRUE],
          bat_velocity |-> bat_velocity]

\* Player.reset(world)
resetInFlight(w, p) ==
    LET at == w[1].position
    IN  [p EXCEPT !.position = [at EXCEPT !.y = getHeightAtPointPosition(w, at.x, at.z)
                                                + PLAYER_HALF_HEIGHT],
                  !.velocity = ZeroVec]
reset(w, p) ==
    LET at == w[1].position
    IN  [p EXCEPT !.position = [at EXCEPT !.y = getHeightAtPointPosition(w, at.x, at.z)
                                                + PLAYER_HALF_HEIGHT],
                  !.velocity = ZeroVec,
                  !.jumping = FALSE]

\* Player.jump()
jumpAgain(p) ==
    [p EXCEPT !.velocity = ScaleAndAdd(Vec(0, JUMP_UP_SPEED, 0), p.forward,
                                       JUMP_FORWARD_SPEED, DIR),
              !.anim = "Jumping",
              !.jumping = TRUE]
jump(p) ==
    IF p.jumping THEN p
    ELSE [p EXCEPT !.velocity = ScaleAndAdd(Vec(0, JUMP_UP_SPEED, 0), p.forward,
                                            JUMP_FORWARD_SPEED, DIR),
                   !.anim = "Jumping",
                   !.jumping = TRUE]

\* Player.rotate(angle), angle in milliradians
rotate(p, angle) == [p EXCEPT !.forward = rotateY(p.forward, angle * 2)]

\* Player.accelerateForward(delta_time_ms, speed_factor)
accelerateForward(p, delta_ms, speed_factor) ==
    addAcceleration(p, ScaleBy(ScaleBy(p.forward, ACCEL_FORWARD, DIR),
                               delta_ms * speed_factor, 1000))

\* Player.accelerateBackward(delta_time_ms, speed_factor)
accelerateBackward(p, delta_ms, speed_factor) ==
    addAcceleration(p, ScaleBy(ScaleBy(ScaleBy(p.forward, -1, 1), ACCEL_FORWARD, DIR),
                               delta_ms * speed_factor, 1000))

\* Player.accelerateLeft(delta_time_ms, speed_factor)
accelerateLeft(p, delta_ms, speed_factor) ==
    addAcceleration(p, ScaleBy(ScaleBy(ScaleBy(getRight(p.forward), -1, 1), ACCEL, DIR),
                               delta_ms * speed_factor, 1000))

\* Player.accelerateRight(delta_time_ms, speed_factor)
accelerateRight(p, delta_ms, speed_factor) ==
    addAcceleration(p, ScaleBy(ScaleBy(getRight(p.forward), ACCEL, DIR),
                               delta_ms * speed_factor, 1000))

\* Player.turnLeft(delta_time_ms)
turnLeft(p, delta_ms) ==
    [p EXCEPT !.forward = rotateY(p.forward, TURNING_DEGREES * delta_ms)]

\* Player.turnRight(delta_time_ms)
turnRight(p, delta_ms) ==
    [p EXCEPT !.forward = rotateY(p.forward, -(TURNING_DEGREES * delta_ms))]

\* Player.transitionAnimationTo(state)
transitionAnimationToAnyway(p, state) == [p EXCEPT !.anim = state]
transitionAnimationTo(p, state) ==
    IF ~p.jumping THEN [p EXCEPT !.anim = state] ELSE p

----------------------------------------------------------------------------
(* The worlds, the inputs and the initial states *)

\* the spawn disk far from the origin, and a disk under the origin
BatWorld == <<Disk(40 * UNIT, 0, 0, 5 * UNIT), Disk(0, 0, 0, 5 * UNIT)>>

\* the spawn disk at the origin and a higher disk that overlaps its rim
PlayerWorld == <<Disk(0, 0, 0, 5 * UNIT), Disk(7 * UNIT, UNIT, 0, 3 * UNIT)>>

\* positions a Bat is constructed at: high above the origin, out of the
\* Player's range at its first target, on the plane of a disk, above the
\* origin, and beside the Player less than half_height above a disk
BatSpawns ==
    {Vec(2 * UNIT, (217 * UNIT) \div 10, 0),
     Vec(30 * UNIT, 15 * UNIT, 0),
     Vec(UNIT, 0, UNIT),
     Vec(3 * UNIT, 15 * UNIT, 4 * UNIT),
     Vec(UNIT, UNIT \div 20, 2 * UNIT)}

\* frame times of the game loop, and frame times the contract of seek excludes
Deltas == {16, 500, 1000}
AnyDeltas == Deltas \cup {0, -500}
PlayerDeltas == {100, 500}
ForwardDeltas == Deltas \cup {0}

\* a Player in flight just above the spawn disk, falling straight down
FallingPlayer ==
    [NewPlayer EXCEPT !.position = Vec(0, UNIT, 0), !.velocity = Vec(0, -(4 * UNIT), 0),
                      !.jumping = TRUE, !.anim = "Jumping"]

\* the world of the landing scenario: one disk at the origin, radius 5, height 0
LandingWorld == <<Disk(0, 0, 0, 5 * UNIT)>>

\* a Player in flight above that disk with no horizontal velocity, at rest or
\* falling, and the frame times of the scenario
AirbornePlayers ==
    {[NewPlayer EXCEPT !.position = Vec(x, y * UNIT, 0), !.velocity = Vec(0, -(v * UNIT), 0),
                       !.jumping = TRUE, !.anim = "Falling"] :
        x \in {0, 2 * UNIT}, y \in 1..8, v \in {0, 2, 4}}

LandingDeltas == {16, 100}

\* the accelerations addAcceleration is called with
Accelerations == {Vec(3 * UNIT, UNIT, 0)}

NoOp ==
    [op |-> "new", delta |-> 0, branch |-> "", bat |-> NewBat(ZeroVec, 0, 0, ZeroVec),
     player |-> NewPlayer]

Did(op, delta_ms, branch) ==
    [op |-> op, delta |-> delta_ms, branch |-> branch, bat |-> bat, player |-> player]

Init ==
    /\ disks = BatWorld
    /\ bat \in {NewBat(at, rx, rz, rnd) :
                   at \in BatSpawns, rx \in RandomSpeeds, rz \in RandomSpeeds,
                   rnd \in RandomXZPositions}
    /\ player = NewPlayer
    /\ min_direction_is_dir = FALSE
    /\ last = NoOp
    /\ trail = <<>>
    /\ steps = 0

\* a Bat after its first update, in pursuit of the Player below it
DivingBat ==
    update(PlayerWorld, NewBat(Vec(3 * UNIT, 15 * UNIT, 4 * UNIT), 4 * UNIT, 0, Vec(2 * UNIT, 0, 0)),
           NewPlayer, 500, Vec(2 * UNIT, 0, 0))

InitPlayer ==
    /\ disks = PlayerWorld
    /\ bat \in {NewBat(Vec(3 * UNIT, 15 * UNIT, 4 * UNIT), rx, 0, Vec(2 * UNIT, 0, 0)) :
                   rx \in RandomSpeeds} \cup {DivingBat}
    /\ player \in {NewPlayer, FallingPlayer}
    /\ min_direction_is_dir = FALSE
    /\ last = NoOp
    /\ trail = <<>>
    /\ steps = 0

InitLanding ==
    /\ disks = LandingWorld
    /\ bat = NewBat(Vec(3 * UNIT, 15 * UNIT, 4 * UNIT), 0, 0, Vec(2 * UNIT, 0, 0))
    /\ player \in AirbornePlayers
    /\ min_direction_is_dir = FALSE
    /\ last = NoOp
    /\ trail = <<>>
    /\ steps = 0

----------------------------------------------------------------------------
(* Actions: one per public operation *)

BatUpdate(delta_ms, rnd) ==
    /\ steps < MaxSteps
    /\ bat' = update(disks, bat, player, delta_ms, rnd)
    /\ last' = Did("Bat.update", delta_ms, UpdateBranch(disks, bat, player, delta_ms))
    /\ trail' = Append(trail, bat'.state)
    /\ steps' = steps + 1
    /\ UNCHANGED <<player, min_direction_is_dir, disks>>

PlayerUpdate(delta_ms) ==
    /\ steps < MaxSteps
    /\ player' = playerUpdate(disks, player, min_direction_is_dir, delta_ms).player
    /\ min_direction_is_dir' = playerUpdate(disks, player, min_direction_is_dir, delta_ms).aliased
    /\ last' = Did("Player.update", delta_ms, PlayerBranch(disks, player, delta_ms))
    /\ steps' = steps + 1
    /\ UNCHANGED <<bat, disks, trail>>

\* a Player in flight under the lowest terrain height: no disk is below it and
\* nothing but reset brings it back
FallenOut(p) == p.jumping /\ p.position.y < NoTerrain /\ p.velocity.y < 0

\* one frame of the game loop with no input: Player.update alone, with the
\* frame time of the frame before; a Player that has fallen out is followed
\* no further
Frame(delta_ms) ==
    /\ ~FallenOut(player)
    /\ last.op = "new" \/ last.delta = delta_ms
    /\ player' = playerUpdate(disks, player, min_direction_is_dir, delta_ms).player
    /\ min_direction_is_dir' = playerUpdate(disks, player, min_direction_is_dir, delta_ms).aliased
    /\ last' = Did("Player.update", delta_ms, PlayerBranch(disks, player, delta_ms))
    /\ UNCHANGED <<bat, disks, trail, steps>>

HitByBat ==
    /\ steps < MaxSteps
    /\ player' = hitByBat(player, bat.velocity).player
    /\ bat' = [bat EXCEPT !.velocity = hitByBat(player, bat.velocity).bat_velocity]
    /\ last' = Did("hitByBat", 0, IF player.jumping THEN "jumping" ELSE "grounded")
    /\ steps' = steps + 1
    /\ UNCHANGED <<min_direction_is_dir, disks, trail>>

PlayerOp(op, delta_ms, p) ==
    /\ steps < MaxSteps
    /\ player' = p
    /\ last' = Did(op, delta_ms, IF player.jumping THEN "jumping" ELSE "grounded")
    /\ steps' = steps + 1
    /\ UNCHANGED <<bat, min_direction_is_dir, disks, trail>>

Reset == PlayerOp("reset", 0, reset(disks, player))

Jump == PlayerOp("jump", 0, jump(player))

AddAcceleration(a) == PlayerOp("addAcceleration", 0, addAcceleration(player, a))

AccelerateForward(delta_ms, speed_factor) ==
    PlayerOp("accelerateForward", delta_ms, accelerateForward(player, delta_ms, speed_factor))

AccelerateBackward(delta_ms, speed_factor) ==
    PlayerOp("accelerateBackward", delta_ms, accelerateBackward(player, delta_ms, speed_factor))

AccelerateLeft(delta_ms, speed_factor) ==
    PlayerOp("accelerateLeft", delta_ms, accelerateLeft(player, delta_ms, speed_factor))

AccelerateRight(delta_ms, speed_factor) ==
    PlayerOp("accelerateRight", delta_ms, accelerateRight(player, delta_ms, speed_factor))

TurnLeft(delta_ms) == PlayerOp("turnLeft", delta_ms, turnLeft(player, delta_ms))

TurnRight(delta_ms) == PlayerOp("turnRight", delta_ms, turnRight(player, delta_ms))

Rotate(angle) == PlayerOp("rotate", 0, rotate(player, angle))

TransitionAnimationTo(state) ==
    PlayerOp("transitionAnimationTo", 0, transitionAnimationTo(player, state))

----------------------------------------------------------------------------
(* Specifications *)

\* the Bat driven by the game loop, with the Player jumping and being reset
Next ==
    \/ \E d \in Deltas, rnd \in RandomXZPositions : BatUpdate(d, rnd)
    \/ Reset
    \/ Jump

Spec == Init /\ [][Next]_vars

\* the same with any frame time, zero and negative ones included
NextAnyDelta ==
    \/ \E d \in AnyDeltas, rnd \in RandomXZPositions : BatUpdate(d, rnd)
    \/ Reset
    \/ Jump

SpecAnyDelta == Init /\ [][NextAnyDelta]_vars

\* the same with the frame times of a clock that never runs backwards, the
\* zero of two updates in the same millisecond included
NextForwardTime ==
    \/ \E d \in ForwardDeltas, rnd \in RandomXZPositions : BatUpdate(d, rnd)
    \/ Reset
    \/ Jump

SpecForwardTime == Init /\ [][NextForwardTime]_vars

\* the Player under every operation of its interface
NextPlayer ==
    \/ \E d \in PlayerDeltas : PlayerUpdate(d)
    \/ HitByBat
    \/ Reset
    \/ Jump
    \/ \E a \in Accelerations : AddAcceleration(a)
    \/ \E d \in {500} : AccelerateForward(d, 1)
    \/ \E d \in {500} : AccelerateBackward(d, 1)
    \/ \E d \in {500} : AccelerateLeft(d, 1)
    \/ \E d \in {500} : AccelerateRight(d, 1)
    \/ \E d \in {100} : TurnLeft(d)
    \/ \E d \in {500} : TurnRight(d)
    \/ \E angle \in {150} : Rotate(angle)
    \/ \E state \in {"Standing", "Running"} : TransitionAnimationTo(state)

SpecPlayer == InitPlayer /\ [][NextPlayer]_vars

\* the landing scenario: frames follow one another, and the loop does not stop
\* while the Player is in flight
NextLanding == \E d \in LandingDeltas : Frame(d)

FlightFrame == player.jumping /\ NextLanding

SpecLanding == InitLanding /\ [][NextLanding]_vars /\ WF_vars(FlightFrame)

----------------------------------------------------------------------------
(* Claims about the Bat *)

BatMoved == last.op = "Bat.update" /\ last.branch \in {"explore", "pursue"}

\* C1: once a Bat is Dead, no operation changes its state, position, velocity,
\* forward, target_position or ignore_timer: Bat.update returns at once, and
\* Dead is never left.
C1_DeadIsFinal == [][bat.state = "DEAD" => bat' = bat]_vars

\* an update was called on a Bat that was Dead already, with the Player
\* somewhere else than at the Bat's death
C1_Witness ==
    /\ last.op = "Bat.update"
    /\ last.bat.state = "DEAD"
    /\ last.delta # 0
    /\ last.player.position # NewPlayer.position

\* C2: in every reachable state of a Bat the magnitude of its velocity is at
\* most S_MAX.
C2_SpeedWithinSMax == WithinLength(bat.velocity, S_MAX)

\* C3: after an update with delta_ms > 0 in which seek ran, the magnitude of the
\* velocity is at most S_MAX.
C3_SeekClampsSpeed ==
    (BatMoved /\ last.delta > 0) => WithinLength(bat.velocity, S_MAX)

\* seek ran on a velocity above S_MAX and had to clamp it
C3_Witness ==
    /\ BatMoved
    /\ last.delta > 0
    /\ ~WithinLength(last.bat.velocity, S_MAX)
    /\ WithinLength(bat.velocity, S_MAX)

\* what the fixed point may add to the length of a velocity difference
ROUNDING == UNIT \div 50

\* C4: in an update with delta_ms > 0 in which the Bat moves, the velocity
\* changes by at most A_MAX * delta_s (ROUNDING allows for the fixed point).
C4_AccelerationWithinAMax ==
    (BatMoved /\ last.delta > 0) =>
        WithinLength(Sub(bat.velocity, last.bat.velocity),
                     (A_MAX * last.delta) \div 1000 + ROUNDING)

\* C5: ignore_timer is never negative, whatever the frame times.
C5_TimerNotNegative == bat.ignore_timer >= 0

\* an update counted a running timer down past zero and floored it
C5_Witness ==
    /\ last.op = "Bat.update"
    /\ last.branch # "dead"
    /\ last.bat.ignore_timer > 0
    /\ last.bat.ignore_timer < last.delta
    /\ bat.ignore_timer = 0

\* C6: an update of a living Bat whose terrain test succeeds leaves it Dead
\* with ignore_timer 1.0 and with position, velocity, forward and
\* target_position as they were.
C6_TerrainHitKills ==
    (/\ last.op = "Bat.update"
     /\ last.bat.state # "DEAD"
     /\ isCylinderCollisionWithDisk(disks, last.bat.position, BAT_RADIUS, 0))
    => /\ bat.state = "DEAD"
       /\ bat.ignore_timer = 1000
       /\ bat.position = last.bat.position
       /\ bat.velocity = last.bat.velocity
       /\ bat.forward = last.bat.forward
       /\ bat.target_position = last.bat.target_position

\* a living Bat hit a disk in an update
C6_Witness ==
    /\ last.op = "Bat.update"
    /\ last.bat.state = "EXPLORE"
    /\ isCylinderCollisionWithDisk(disks, last.bat.position, BAT_RADIUS, 0)
    /\ bat.state = "DEAD"

\* the Player's cylinder met the Bat's cylinder inflated by 20 when the last
\* update began
WasInRange ==
    cylinderIntersection(last.bat.position, BAT_RADIUS + 20 * UNIT,
                         BAT_HALF_HEIGHT + 20 * UNIT,
                         last.player.position, PLAYER_RADIUS, PLAYER_HALF_HEIGHT)

\* C7: after an update of a living Bat that hits no terrain, the state is
\* Pursue if the Player was in range when the update began and Explore if not,
\* whatever the state was before.
C7_StateFollowsRange ==
    (/\ last.op = "Bat.update"
     /\ last.bat.state # "DEAD"
     /\ ~isCylinderCollisionWithDisk(disks, last.bat.position, BAT_RADIUS, 0))
    => bat.state = (IF WasInRange THEN "PURSUE" ELSE "EXPLORE")

\* a Bat went from Explore to Pursue and back to Explore
C7_Witness ==
    \E i \in 1..(Len(trail) - 2) :
        /\ trail[i] = "EXPLORE"
        /\ trail[i + 1] = "PURSUE"
        /\ trail[i + 2] = "EXPLORE"

\* C8: whenever the Explore behaviour runs, the target sought is a roaming
\* target at altitude 15.
C8_ExploreTargetAtAltitude ==
    (last.op = "Bat.update" /\ last.branch = "explore")
    => bat.target_position \in {RoamingTarget(rnd) : rnd \in RandomXZPositions}

\* the Bat had reached its target when the last update began
HadReachedTarget ==
    cylinderIntersection(last.bat.position, BAT_RADIUS, BAT_HALF_HEIGHT,
                         last.bat.target_position, 2 * UNIT, UNIT)

\* C9: an Explore update replaces a target the Bat has reached by a random
\* XZ position at altitude 15 and seeks toward the new one; it leaves a
\* target the Bat has not reached as it is.
C9_ExploreRepicksReachedTarget ==
    (last.op = "Bat.update" /\ last.branch = "explore")
    => /\ HadReachedTarget =>
            /\ bat.target_position \in {RoamingTarget(rnd) : rnd \in RandomXZPositions}
            /\ bat.velocity =
                   seek([last.bat EXCEPT !.target_position = bat.target_position],
                        last.delta).velocity
       /\ ~HadReachedTarget => bat.target_position = last.bat.target_position

\* an Explore update began with the target at the Bat's own position and
\* ended with another target
C9_Witness ==
    /\ last.op = "Bat.update"
    /\ last.branch = "explore"
    /\ last.bat.target_position = last.bat.position
    /\ bat.target_position # last.bat.target_position

\* C18: a living Bat dies in an update exactly when its own cylinder, with
\* its position, its radius and its half_height, intersects a disk.
C18_DeathByOwnCylinder ==
    (last.op = "Bat.update" /\ last.bat.state # "DEAD")
    => (bat.state = "DEAD"
        <=> isCylinderCollisionWithDisk(disks, last.bat.position, BAT_RADIUS, BAT_HALF_HEIGHT))

\* C22: under Bat.update calls with delta_ms >= 0, ignore_timer is 1.0
\* exactly when the Bat is Dead and 0 exactly when it is not; the value set at
\* death is never counted down.
C22_TimerTellsDeath ==
    /\ bat.ignore_timer = DEATH_TIMER <=> bat.state = "DEAD"
    /\ bat.ignore_timer = 0 <=> bat.state # "DEAD"

\* a Dead Bat went through a further update of positive frame time
C22_Witness ==
    /\ last.op = "Bat.update"
    /\ last.bat.state = "DEAD"
    /\ last.delta > 0
    /\ bat.state = "DEAD"
    /\ bat.ignore_timer = DEATH_TIMER

----------------------------------------------------------------------------
(* Claims about the Player *)

\* C10: while jumping is true, no operation but reset and the landing branch
\* of update makes it false, and every update that does not land adds
\* gravity * delta to the vertical velocity.
C10_JumpingUntilLanding ==
    (last.op # "new" /\ last.player.jumping)
    => /\ \/ player.jumping
          \/ last.op = "reset"
          \/ last.op = "Player.update" /\ last.branch = "land"
       /\ (last.op = "Player.update" /\ last.branch # "land")
          => player.velocity.y =
                last.player.velocity.y + DivT(GRAVITY.y * last.delta, 1000)

\* a Player that was jumping and falling landed in an update
C10_Witness ==
    /\ last.op = "Player.update"
    /\ last.player.jumping
    /\ last.player.velocity.y < 0
    /\ last.branch = "land"
    /\ ~player.jumping

\* the Player stands on the disk of the landing scenario
Landed ==
    /\ ~player.jumping
    /\ player.position.y = LandingWorld[1].position.y + PLAYER_HALF_HEIGHT

\* C11: over the single disk, a Player in flight with no horizontal velocity
\* eventually stands on the disk, at the disk's height plus half_height, and
\* stays there under further updates.
C11_EventuallyLanded == <>[]Landed

\* C12: Player.hitByBat leaves the vector it is handed, the Bat's velocity,
\* as it was, whether the Player is jumping or grounded.
C12_HitByBatKeepsBatVelocity ==
    last.op = "hitByBat" => bat.velocity = last.bat.velocity

\* the last operation was a grounded, on-disk Player.update; where it put the
\* Player, the terrain height under it, the slope it measured
GroundedUpdate == last.op = "Player.update" /\ last.branch = "ground"

SlideAt == ScaleAndAdd(last.player.position, last.player.velocity, last.delta, 1000)

SlideBase == getHeightAtCirclePosition(disks, SlideAt.x, SlideAt.z, PLAYER_RADIUS)

SlideSlope == DivT((SlideBase - MinHeight(disks, SlideAt, SlideBase)) * 100, SAMPLE_RADIUS)

SlideThreshold == getSlopeFactorAtPosition(disks, SlideAt.x, SlideAt.z)

\* the sampled directions with the lowest terrain height
SteepestDescents ==
    {SampleDir(i) : i \in {j \in 0..(NUM_DIRECTIONS - 1) :
        SampleHeight(disks, SlideAt, j) = MinHeight(disks, SlideAt, SlideBase)}}

\* what the update added to the velocity that friction left
SlideAcceleration ==
    Sub(player.velocity,
        ScaleBy([last.player.velocity EXCEPT !.y = 0],
                FrictionPow(getFrictionAtPosition(disks, SlideAt.x, SlideAt.z), last.delta),
                1000))

\* C13: in a grounded, on-disk update that measures a slope above the
\* threshold, the acceleration added to the velocity points along the sampled
\* direction with the lowest terrain height (one of them, when several are
\* as low), with size (slope - threshold) * 10 * delta.
C13_SlideAlongSteepestDescent ==
    (GroundedUpdate /\ SlideSlope > SlideThreshold)
    => \E d \in SteepestDescents :
           SlideAcceleration =
               ScaleBy(Vec(d.x, 0, d.y),
                       DivT((SlideSlope - SlideThreshold) * last.delta, 10000 \div UNIT), DIR)

----------------------------------------------------------------------------
(* Claims about the Player's operations *)

\* C14: Player.jump() changes nothing while jumping is true; on a grounded
\* Player it sets the velocity to (0, 12, 0) + forward * 8, whatever the
\* velocity was, signals animation Jumping and sets jumping.
C14_JumpOnlyFromGround ==
    last.op = "jump"
    => IF last.player.jumping
       THEN player = last.player
       ELSE player = [last.player EXCEPT
                         !.velocity = Vec(DivT(last.player.forward.x * 8 * UNIT, DIR),
                                          12 * UNIT + DivT(last.player.forward.y * 8 * UNIT, DIR),
                                          DivT(last.player.forward.z * 8 * UNIT, DIR)),
                         !.anim = "Jumping",
                         !.jumping = TRUE]

\* a grounded Player that was moving, and had turned, jumped
C14_Witness ==
    /\ last.op = "jump"
    /\ ~last.player.jumping
    /\ last.player.velocity # ZeroVec
    /\ last.player.forward # NewPlayer.forward
    /\ player.jumping

\* two parts in a hundred of the knockback speed
FIXED_POINT == (5 * UNIT) \div 50

\* C15: Player.hitByBat on a grounded Player, with a bat velocity whose
\* horizontal part is not zero, replaces the Player's velocity by the
\* horizontal direction of the bat velocity scaled to 5 with vertical
\* component 5 ((1, 0, 0) gives (5, 5, 0)), signals animation Jumping and sets
\* jumping.  FIXED_POINT is what the fixed point may take from the length 5
\* or add across the direction.
C15_KnockbackFromGround ==
    (/\ last.op = "hitByBat"
     /\ ~last.player.jumping
     /\ ~last.bat.velocity.nan
     /\ (last.bat.velocity.x # 0 \/ last.bat.velocity.z # 0))
    => LET b == last.bat.velocity
           v == player.velocity
       IN  /\ v.y = 5 * UNIT
           /\ Abs(v.x * b.z - v.z * b.x) <= FIXED_POINT * (Abs(b.x) + Abs(b.z))
           /\ v.x * b.x + v.z * b.z > 0
           /\ Abs(Length(Vec(v.x, 0, v.z)) - 5 * UNIT) <= FIXED_POINT
           /\ (b.z = 0 /\ b.x > 0) => v = Vec(5 * UNIT, 5 * UNIT, 0)
           /\ player = [last.player EXCEPT !.velocity = v, !.anim = "Jumping",
                                           !.jumping = TRUE]

\* a grounded Player that was moving was hit by a Bat flying diagonally
C15_Witness ==
    /\ last.op = "hitByBat"
    /\ ~last.player.jumping
    /\ last.player.velocity # ZeroVec
    /\ last.bat.velocity.x # 0
    /\ last.bat.velocity.y # 0
    /\ last.bat.velocity.z # 0
    /\ player.jumping

\* C16: while jumping is true, addAcceleration and accelerateForward,
\* accelerateBackward, accelerateLeft and accelerateRight leave the velocity
\* (and the rest of the Player) as it was; on a grounded Player
\* addAcceleration(a) makes the velocity exactly velocity + a.
C16_AccelerationOnlyOnGround ==
    /\ (/\ last.op \in {"addAcceleration", "accelerateForward", "accelerateBackward",
                        "accelerateLeft", "accelerateRight"}
        /\ last.player.jumping)
       => player = last.player
    /\ (last.op = "addAcceleration" /\ ~last.player.jumping)
       => \E a \in Accelerations :
              player = [last.player EXCEPT
                           !.velocity = Vec(last.player.velocity.x + a.x,
                                            last.player.velocity.y + a.y,
                                            last.player.velocity.z + a.z)]

\* accelerateLeft was called on a Player in flight that was moving
C16_Witness ==
    /\ last.op = "accelerateLeft"
    /\ last.player.jumping
    /\ last.player.velocity.x # 0
    /\ last.delta > 0

\* C17: after reset(world), from any state, the Player is at the x and z of
\* the first disk, at the terrain height there plus half_height, with
\* velocity (0, 0, 0) and jumping false.
C17_ResetToSpawn ==
    last.op = "reset"
    => /\ player.position.x = disks[1].position.x
       /\ player.position.z = disks[1].position.z
       /\ player.position.y =
              getHeightAtPointPosition(disks, disks[1].position.x, disks[1].position.z)
              + PLAYER_HALF_HEIGHT
       /\ player.velocity = ZeroVec
       /\ ~player.jumping

\* a Player in flight, moving, away from the spawn point, was reset
C17_Witness ==
    /\ last.op = "reset"
    /\ last.player.jumping
    /\ last.player.velocity.x # 0
    /\ last.player.velocity.y # 0
    /\ last.player.position.x # disks[1].position.x
    /\ ~player.jumping

\* where the last Player.update predicted the Player to be
PredictedAt == ScaleAndAdd(last.player.position, last.player.velocity, last.delta, 1000)

\* C19: an update begun with jumping true in which the predicted position
\* and the old position both collide with a disk lands the Player: jumping
\* false, animation Standing, velocity.y 0, position.y the terrain height
\* under the Player's circle at the new x and z plus half_height, horizontal
\* velocity kept.
C19_LandingBranch ==
    (/\ last.op = "Player.update"
     /\ last.player.jumping
     /\ isCylinderCollisionWithDisk(disks, PredictedAt, PLAYER_RADIUS, PLAYER_HALF_HEIGHT)
     /\ isCylinderCollisionWithDisk(disks, last.player.position, PLAYER_RADIUS,
                                    PLAYER_HALF_HEIGHT))
    => /\ ~player.jumping
       /\ player.anim = "Standing"
       /\ player.velocity.y = 0
       /\ player.velocity.x = last.player.velocity.x
       /\ player.velocity.z = last.player.velocity.z
       /\ player.position.x = PredictedAt.x
       /\ player.position.z = PredictedAt.z
       /\ player.position.y =
              getHeightAtCirclePosition(disks, PredictedAt.x, PredictedAt.z, PLAYER_RADIUS)
              + PLAYER_HALF_HEIGHT

\* a Player that came down moving sideways landed
C19_Witness ==
    /\ last.op = "Player.update"
    /\ last.branch = "land"
    /\ last.player.velocity.y < 0
    /\ last.player.velocity.x # 0
    /\ ~player.jumping

\* C20: an update begun with jumping true in which the predicted position
\* collides with a disk and the old position does not keeps jumping true,
\* zeroes velocity.x and velocity.z, keeps position.x and position.z, and
\* preserves the vertical motion: position.y is the predicted y, velocity.y
\* the old velocity.y plus gravity * delta.
C20_SideBranch ==
    (/\ last.op = "Player.update"
     /\ last.player.jumping
     /\ isCylinderCollisionWithDisk(disks, PredictedAt, PLAYER_RADIUS, PLAYER_HALF_HEIGHT)
     /\ ~isCylinderCollisionWithDisk(disks, last.player.position, PLAYER_RADIUS,
                                     PLAYER_HALF_HEIGHT))
    => /\ player.jumping
       /\ player.velocity.x = 0
       /\ player.velocity.z = 0
       /\ player.position.x = last.player.position.x
       /\ player.position.z = last.player.position.z
       /\ player.position.y = PredictedAt.y
       /\ player.velocity.y = last.player.velocity.y + DivT(GRAVITY.y * last.delta, 1000)

\* a Player flying sideways ran into a disk
C20_Witness ==
    /\ last.op = "Player.update"
    /\ last.branch = "side"
    /\ last.player.velocity.x # 0
    /\ player.velocity.x = 0
    /\ player.position.y # last.player.position.y

\* C21: an update begun with jumping false in which isOnDisk is false at the
\* predicted position starts the fall: jumping true, animation Falling, the
\* velocity as it was before the update (no gravity, friction or sliding),
\* and the position the predicted position.
C21_StartFalling ==
    (/\ last.op = "Player.update"
     /\ ~last.player.jumping
     /\ ~isOnDisk(disks, PredictedAt.x, PredictedAt.z, PLAYER_RADIUS))
    => /\ player.jumping
       /\ player.anim = "Falling"
       /\ player.velocity = last.player.velocity
       /\ player.position = PredictedAt

\* a grounded Player moved off the disks and started to fall
C21_Witness ==
    /\ last.op = "Player.update"
    /\ last.branch = "fall"
    /\ ~last.player.jumping
    /\ last.player.anim # "Falling"
    /\ player.jumping
    /\ player.position # last.player.position

\* C23: in every state reachable by the Player's operations, whenever jumping
\* is true the animation last signalled to the model is Jumping or Falling,
\* and transitionAnimationTo does not change the animation while jumping is
\* true.
C23_AirborneAnimation ==
    /\ player.jumping => player.anim \in {"Jumping", "Falling"}
    /\ (last.op = "transitionAnimationTo" /\ last.player.jumping)
       => player.anim = last.player.anim

\* transitionAnimationTo was called on a Player in flight
C23_Witness ==
    /\ last.op = "transitionAnimationTo"
    /\ last.player.jumping
    /\ player.jumping
    /\ player.anim = "Falling"

====
